---- MODULE Spec2Model ----
(***************************************************************************)
(* The WhatsApp mythology bot: the conversation router (help / reset /     *)
(* language selection / content generation), the preference store and the  *)
(* content pipeline, for the handler variants of the repository.           *)
(*                                                                         *)
(* A message text is a sequence of one-character strings, so that trim,    *)
(* toLowerCase and parseInt are computed as JavaScript computes them.      *)
(***************************************************************************)
EXTENDS Integers, Sequences, FiniteSets, TLC

VARIABLES
  variant,    \* which handler file is deployed
  VERIFY_TOKEN, \* process.env.WEBHOOK_VERIFY_TOKEN when the module was loaded
  userLang,   \* the preference store in memory (Map / db.data.userLang)
  dbFile,     \* what the adapter of the durable variant holds, see NoFile
  req,        \* per request slot: the handler invocation in progress
  prev        \* per sender: what the sender's previous completed turn was

vars == <<variant, VERIFY_TOKEN, userLang, dbFile, req, prev>>

-----------------------------------------------------------------------------
(* Bounds of the model *)

MaxNum == 16
MaxNeg == 1

Senders == {"U1", "U2"}
Reqs == {"r1", "r2"}
SeqReqs == {"r1"}
Stamps == {"t1", "t2"}

-----------------------------------------------------------------------------
(* The language table *)

languageNames ==
  <<
     [code |-> "en", chars |-> <<"e","n">>, name |-> "English"],
     [code |-> "hi", chars |-> <<"h","i">>, name |-> "Hindi"],
     [code |-> "ta", chars |-> <<"t","a">>, name |-> "Tamil"],
     [code |-> "bn", chars |-> <<"b","n">>, name |-> "Bengali"],
     [code |-> "mr", chars |-> <<"m","r">>, name |-> "Marathi"],
     [code |-> "ml", chars |-> <<"m","l">>, name |-> "Malayalam"],
     [code |-> "te", chars |-> <<"t","e">>, name |-> "Telugu"],
     [code |-> "pa", chars |-> <<"p","a">>, name |-> "Punjabi"],
     [code |-> "gu", chars |-> <<"g","u">>, name |-> "Gujarati"],
     [code |-> "kn", chars |-> <<"k","n">>, name |-> "Kannada"],
     [code |-> "or", chars |-> <<"o","r">>, name |-> "Odia"],
     [code |-> "ur", chars |-> <<"u","r">>, name |-> "Urdu"],
     [code |-> "as", chars |-> <<"a","s">>, name |-> "Assamese"],
     [code |-> "ne", chars |-> <<"n","e">>, name |-> "Nepali"],
     [code |-> "sa", chars |-> <<"s","a">>, name |-> "Sanskrit"] >>

\* Object.keys(languageNames): the codes in declaration order
langKeys == [i \in 1..Len(languageNames) |-> languageNames[i].code]

Codes == {langKeys[i] : i \in 1..Len(langKeys)}

\* languageNames[code]
NameOf(code) ==
  IF code \in Codes
  THEN (CHOOSE e \in {languageNames[i] : i \in 1..Len(languageNames)} : e.code = code).name
  ELSE "function Object() { [native code] }"

-----------------------------------------------------------------------------
(* JavaScript string functions on sequences of characters *)

UpperLetters == <<"A","B","C","D","E","F","G","H","I","J","K","L","M",
                  "N","O","P","Q","R","S","T","U","V","W","X","Y","Z">>
LowerLetters == <<"a","b","c","d","e","f","g","h","i","j","k","l","m",
                  "n","o","p","q","r","s","t","u","v","w","x","y","z">>
Digits == <<"0","1","2","3","4","5","6","7","8","9">>

IsSpace(c) == c \in {" ", "\t", "\n", "\r"}
IsDigit(c) == \E i \in 1..10 : Digits[i] = c
DigitVal(c) == (CHOOSE i \in 1..10 : Digits[i] = c) - 1

LowerChar(c) ==
  IF \E i \in 1..26 : UpperLetters[i] = c
  THEN LowerLetters[CHOOSE i \in 1..26 : UpperLetters[i] = c]
  ELSE c

\* String.prototype.toLowerCase
toLowerCase(s) == [i \in 1..Len(s) |-> LowerChar(s[i])]

RECURSIVE TrimStart(_)
TrimStart(s) ==
  IF s # <<>> /\ IsSpace(Head(s)) THEN TrimStart(Tail(s)) ELSE s

RECURSIVE TrimEnd(_)
TrimEnd(s) ==
  IF s # <<>> /\ IsSpace(s[Len(s)]) THEN TrimEnd(SubSeq(s, 1, Len(s) - 1)) ELSE s

\* String.prototype.trim
trim(s) == TrimEnd(TrimStart(s))

\* the longest prefix of s made of digits
RECURSIVE DigitPrefix(_)
DigitPrefix(s) ==
  IF s # <<>> /\ IsDigit(Head(s)) THEN <<Head(s)>> \o DigitPrefix(Tail(s)) ELSE <<>>

RECURSIVE DigitsValue(_)
DigitsValue(ds) ==
  IF ds = <<>> THEN 0
  ELSE 10 * DigitsValue(SubSeq(ds, 1, Len(ds) - 1)) + DigitVal(ds[Len(ds)])

\* a JavaScript number that is either NaN or an integer
NaN == [nan |-> TRUE, val |-> 0]
Num(n) == [nan |-> FALSE, val |-> n]
isNaN(x) == x.nan

\* parseInt(s, 10): leading white space skipped, an optional sign, then the
\* longest run of digits; whatever follows the digits is ignored; NaN when
\* there is no digit at that place.
parseInt(s) ==
  LET t    == TrimStart(s)
      neg  == t # <<>> /\ Head(t) = "-"
      body == IF t # <<>> /\ Head(t) \in {"-", "+"} THEN Tail(t) ELSE t
      ds   == DigitPrefix(body)
  IN  IF ds = <<>> THEN NaN
      ELSE IF neg THEN Num(0 - DigitsValue(ds)) ELSE Num(DigitsValue(ds))

\* the decimal digits of a natural number, as `${n}` prints them
RECURSIVE NatToStr(_)
NatToStr(n) ==
  IF n < 10 THEN <<Digits[n + 1]>>
  ELSE NatToStr(n \div 10) \o <<Digits[(n % 10) + 1]>>

IntToStr(k) == IF k < 0 THEN <<"-">> \o NatToStr(0 - k) ELSE NatToStr(k)

-----------------------------------------------------------------------------
(* The reserved words, as the handlers spell them *)

W_help        == <<"h","e","l","p">>
W_menu        == <<"m","e","n","u">>
W_reset       == <<"r","e","s","e","t">>
W_change      == <<"c","h","a","n","g","e"," ","l","a","n","g","u","a","g","e">>
W_resetLang   == <<"r","e","s","e","t"," ","l","a","n","g","u","a","g","e">>
W_constructor == <<"c","o","n","s","t","r","u","c","t","o","r">>

-----------------------------------------------------------------------------
(* The inbound messages the model sends *)

IntMessages ==
  {IntToStr(k) : k \in 0..MaxNum} \cup {IntToStr(0 - k) : k \in 1..MaxNeg}

\* the reserved words as a user may type them: other case, white space around
M_Help      == <<" ","H","e","l","p"," ">>
M_Menu      == <<"M","E","N","U">>
M_Reset     == <<"R","e","s","e","t","\n">>
M_Change    == <<" ","C","h","a","n","g","e"," ","L","a","n","g","u","a","g","e">>
M_ResetLang == <<"R","E","S","E","T"," ","L","A","N","G","U","A","G","E"," ">>

TriggerMessages ==
  { W_help, W_menu, W_reset, W_change, W_resetLang,
    M_Help, M_Menu, M_Reset, M_Change, M_ResetLang }

FreeMessages ==
  { <<"H","i">>,
    <<"T","e","l","l"," ","m","e">>,
    <<"3"," ","s","t","o","r","i","e","s">>,
    <<"2","n","d">>,
    <<"1",".","5">>,
    <<" ","3"," ">>,
    <<"h","e","l","p","!">>,
    <<"t","a">>,
    W_constructor,
    <<>> }

Messages == IntMessages \cup TriggerMessages \cup FreeMessages

\* the second sender talks less
FewMessages == { IntToStr(2), W_change, W_reset, W_help, <<"H","i">> }

MessagesOf(s) == IF s = "U1" THEN Messages ELSE FewMessages

-----------------------------------------------------------------------------
(* The handler variants and the texts they reply with *)

\* part_001: in-memory store, TwiML reply       (src/unnamed/part_001)
\* index:    in-memory store, TwiML reply       (src/index.js, second handler)
\* part_000: durable lowdb store, TwiML reply   (src/unnamed/part_000)
\* cloud:    WhatsApp Cloud API, REST reply     (src/unnamed/part_002, second handler)
\* pages_api: language chosen by its code       (src/pages/api/whatsapp.js)
\* rest:     no store, reply by Twilio REST     (src/index.js, third handler)
\* rest_fallback: the same, apology by REST     (src/unnamed/part_002, last handler)
Variants == {"part_001", "index", "part_000", "cloud", "pages_api",
             "rest", "rest_fallback"}

\* the handlers that keep no preference and answer every message with content
RestVariants == {"rest", "rest_fallback"}

NoPref == "undefined"
NoSender == "nobody"

\* params.get('From') of a body without From, and a From that names a
\* property every object inherits
MissingFrom == "null"
ProtoFrom == "constructor"

\* the keys the preference store is looked up with
Identities == Senders \cup {MissingFrom, ProtoFrom}

\* what an inherited property reads as where a code is expected
ObjectFn == "function Object() { [native code] }"

\* `${idx}. ${name}`: the lines numbered from 0
OptionLine_zeroBased(idx) == NatToStr(idx) \o <<". ", languageNames[idx + 1].name>>

\* `${idx + 1}. ${name}` for the entry at 0-based position idx
OptionLine(idx) == NatToStr(idx + 1) \o <<". ", languageNames[idx + 1].name>>

\* Object.entries(languageNames).map(...): one line per language
options == [i \in 1..Len(languageNames) |-> OptionLine(i - 1)]

helpText(v) ==
  CASE v = "part_001" ->
         << <<"Welcome to the Indian Mythology Bot!">>,
            <<"- Select language by number:">> >> \o options \o
         << <<"- Ask any question to get answers in your language.">>,
            <<"- Type 'change language', 'reset', or 'reset language' to switch.">>,
            <<"- Type 'help' to see this message.">> >>
    [] v \in {"index", "part_000"} ->
         << <<"Welcome to the Indian Mythology Bot!">>,
            <<"- Select language by number:">> >> \o options \o
         << <<"- Ask any question to get answers in your language.">>,
            <<"- Type 'change language' to switch.">>,
            <<"- Type 'help' to see this message.">> >>
    [] OTHER -> << <<"Select language by number:">> >> \o options

menuText(v) ==
  IF v = "cloud"
  THEN << <<"Please select language by number:">> >> \o options
  ELSE << <<"Please select your language by replying with the number:">> >> \o options

\* the interactive list of pages/api/whatsapp.js: one row per language
listText ==
  << <<"Please select your preferred language:">> >> \o
  [i \in 1..Len(languageNames) |-> <<languageNames[i].code, languageNames[i].name>>]

resetText(v) ==
  IF v = "cloud"
  THEN << <<"Language cleared. Send a number to select again.">> >>
  ELSE << <<"Language cleared. Please select a new language.">> >>

selectedText(code) == << <<"Language set to ", NameOf(code)>> >>

apologyText == << <<"Sorry, something went wrong. Please try again later.">> >>

\* the acknowledgement of a GET request
ackText == << <<"WhatsApp bot running">> >>

ShortText == "shortText"
AudioUrl == "audioUrl"

\* the reply of a content turn: the short text, and the audio when url is set
contentText(v, lang, url) ==
  CASE v = "part_001" -> << <<ShortText, "hook", IF lang \in Codes THEN lang ELSE "en">> >>
    [] v = "cloud"    -> IF url THEN << <<ShortText>>, <<"Listen: ", AudioUrl>> >>
                         ELSE << <<ShortText>> >>
    [] v \in RestVariants -> << <<ShortText>> >>
    [] OTHER          -> IF url THEN << <<ShortText>>, <<"Listen here: ", AudioUrl>> >>
                         ELSE << <<ShortText>> >>

\* the media attached although no audio was produced: the guard
\* if (mediaUrl) dropped
contentMedia_unguarded(v, url) == IF v = "part_001" THEN <<AudioUrl>> ELSE <<>>

\* the media of the second TwiML message (part_001 sends the voice note apart)
contentMedia(v, url) ==
  IF v \in ({"part_001"} \cup RestVariants) /\ url THEN <<AudioUrl>> ELSE <<>>

-----------------------------------------------------------------------------
(* The conversation router *)

\* incoming.trim().toLowerCase()
incomingTextRaw(incoming) == toLowerCase(trim(incoming))

\* the help test without its second word
IsHelp_helpOnly(raw) == raw = W_help

IsHelp(raw) == raw = W_help \/ raw = W_menu

\* the reset test of the other handlers, which know 'change language' only
IsReset_changeOnly(v, raw) == raw = W_change

IsReset(v, raw) ==
  IF v = "part_001"
  THEN raw = W_change \/ raw = W_reset \/ raw = W_resetLang
  ELSE raw = W_change

\* !isNaN(num) && num >= 1 && num <= langKeys.length
IsSelection(raw) ==
  LET num == parseInt(raw)
  IN  ~isNaN(num) /\ num.val >= 1 /\ num.val <= Len(langKeys)

\* langKeys[num] in place of langKeys[num - 1], the index taken 1-based
SelectedCode_oneBased(raw) == langKeys[(parseInt(raw).val % Len(langKeys)) + 1]

\* langKeys[num - 1]
SelectedCode(raw) == langKeys[(parseInt(raw).val - 1) + 1]

\* languageMap[incomingTextRaw], read for its truth value: an own key of
\* languageMap, or a property every object inherits
languageMapHas(raw) ==
  \/ \E i \in 1..Len(languageNames) : languageNames[i].chars = raw
  \/ raw = W_constructor

\* the string pages/api/whatsapp.js stores: the text itself
TypedCode(raw) ==
  IF \E i \in 1..Len(languageNames) : languageNames[i].chars = raw
  THEN languageNames[CHOOSE i \in 1..Len(languageNames) : languageNames[i].chars = raw].code
  ELSE "constructor"

\* the branch the handler takes, in the order of its if statements
Branch(v, has, raw) ==
  CASE v \in {"part_001", "index", "part_000"} ->
         IF IsHelp(raw) THEN "help"
         ELSE IF IsReset(v, raw) THEN "reset"
         ELSE IF ~has THEN (IF IsSelection(raw) THEN "select" ELSE "menu")
         ELSE "content"
    [] v = "cloud" ->
         IF IsReset(v, raw) THEN "reset"
         ELSE IF IsHelp(raw) THEN "help"
         ELSE IF ~has THEN (IF IsSelection(raw) THEN "select" ELSE "menu")
         ELSE "content"
    [] v \in RestVariants -> "content"
    [] OTHER ->
         IF ~has /\ ~languageMapHas(raw) THEN "list"
         ELSE IF languageMapHas(raw) THEN "setcode"
         ELSE "content"

\* db.data.userLang[from] on a plain object finds the properties of
\* Object.prototype; a Map has its own keys only
Inherited(v, s) == v = "part_000" /\ s = ProtoFrom

\* the fallback taken although a code is stored
LangOf_fallback(store, s) == "en"

\* userLanguagePrefs.get(from) || 'en'
LangOf(store, s) ==
  IF store[s] # NoPref THEN store[s]
  ELSE IF Inherited(variant, s) THEN ObjectFn
  ELSE "en"

-----------------------------------------------------------------------------
(* One handler invocation *)

EmptyStore == [s \in Identities |-> NoPref]

\* a query parameter or an environment variable that is not there
Absent == "undefined"

\* the strings a verify token can be
Tokens == {"secret", "guess"}

\* const VERIFY_TOKEN = process.env.WEBHOOK_VERIFY_TOKEN: the variable is
\* set in the environment or it is not; only the Cloud API handler reads it
Environment(v) == IF v = "cloud" THEN {"secret", Absent} ELSE {Absent}

\* the values of hub.mode that are truthy, and of hub.challenge
Modes == {"subscribe", "unsubscribe"}
Challenges == {"1158201444"}

\* the JSON bodies without a message: null, an object without entry, and a
\* delivery status
Payloads == {"null", "{}", "statuses"}

\* the methods other than GET and POST
OtherMethods == {"PUT", "DELETE"}

\* the adapter before its first write: kept tells a JSONFile on db.json, which
\* outlives the process, from the Memory adapter chosen when process.env.VERCEL
\* is set; defaults tells new Low(adapter, defaultData), whose read() keeps
\* db.data when the adapter finds nothing, from new Low(adapter), whose read()
\* leaves null; exists and data are what adapter.read() finds; told is, per
\* sender, the preference whose confirmation followed the last write of that
\* sender
NoFile(kept, defaults) ==
  [kept |-> kept, defaults |-> defaults, exists |-> FALSE,
   data |-> EmptyStore, told |-> EmptyStore]

\* the ways db.js builds its Low
Adapters(v) ==
  IF v = "part_000" THEN {NoFile(TRUE, d) : d \in BOOLEAN} ELSE {NoFile(TRUE, TRUE)}

Idle ==
  [ pc |-> "idle", from |-> NoSender, msg |-> <<>>,
    was |-> NoPref, hadPref |-> FALSE, after |-> "none", branch |-> "none", lang |-> "none",
    pending |-> [set |-> FALSE, data |-> EmptyStore],
    nShort |-> 0, nLong |-> 0, nTts |-> 0, nUpload |-> 0, asked |-> {},
    shortOk |-> FALSE, longOk |-> FALSE, ttsOk |-> FALSE, uploadOk |-> FALSE,
    file |-> "none", url |-> FALSE, ttsOut |-> "none",
    stamp |-> "none", fileBy |-> "none", audioBy |-> "none",
    had0 |-> FALSE, conc |-> FALSE, fresh |-> FALSE,
    method |-> "none", query |-> <<>>, payload |-> "none",
    status |-> 0, nRes |-> 0, nSend |-> 0, crashed |-> FALSE, text |-> <<>>, media |-> <<>>, sent |-> FALSE ]

\* res.status(code).send(body), or sendMessage(to, body) and res.status(200).end()
Respond(slot, code, body, media, delivered) ==
  [slot EXCEPT !.pc = "done", !.status = code, !.nRes = @ + 1, !.text = body,
               !.media = media, !.sent = delivered]

\* a call of the send API: sendMessage(to, body), client.messages.create
Outbound(slot) == [slot EXCEPT !.nSend = @ + 1]

\* an exception leaves the handler: the handler sends no response
Crash(slot) == [slot EXCEPT !.pc = "done", !.crashed = TRUE]

\* the reset that clears the whole store, clear() in place of delete(from)
StoreAfter_clear(store, s, b, raw) ==
  CASE b = "reset"   -> [x \in DOMAIN store |-> NoPref]
    [] b = "select"  -> [store EXCEPT ![s] = SelectedCode(raw)]
    [] b = "setcode" -> [store EXCEPT ![s] = TypedCode(raw)]
    [] OTHER         -> store

\* the store after the branch has run
StoreAfter(store, s, b, raw) ==
  CASE b = "reset"   -> [store EXCEPT ![s] = NoPref]
    [] b = "select"  -> [store EXCEPT ![s] = SelectedCode(raw)]
    [] b = "setcode" -> [store EXCEPT ![s] = TypedCode(raw)]
    [] OTHER         -> store

\* the text of a reply that needs no content generation
ReplyText(v, b, raw) ==
  CASE b = "help"    -> helpText(v)
    [] b = "reset"   -> resetText(v)
    [] b = "select"  -> selectedText(SelectedCode(raw))
    [] b = "setcode" -> selectedText(TypedCode(raw))
    [] b = "menu"    -> menuText(v)
    [] OTHER         -> listText

\* whether an outbound REST send happens here, which may fail
SendOutcomes(v, b) ==
  IF (v = "cloud" /\ b # "content") \/ (v = "pages_api" /\ b = "list")
  THEN BOOLEAN ELSE {TRUE}

\* another invocation of the handler is under way
Busy(r) == \E q \in Reqs \ {r} : req[q].pc \notin {"idle", "done", "acked"}

\* the sender has no preference, in memory or in db.json, and no other
\* invocation is under way
Fresh(r, s) ==
  /\ userLang[s] = NoPref
  /\ dbFile.exists => dbFile.data[s] = NoPref
  /\ ~Busy(r)

\* the test made when the handler started, in place of the test made after
\* the body was parsed
HasPref_atArrival(store, s, seen) == seen

\* userLanguagePrefs.has(from), !db.data.userLang[from]: evaluated when the
\* routing runs
HasPref(store, s, seen) == store[s] # NoPref \/ Inherited(variant, s)

\* the body of the handler from the routing on, up to its first await or its
\* response
Dispatch(r, s, m) ==
  LET raw  == incomingTextRaw(m)
      seen == IF req[r].pc = "idle" THEN userLang[s] # NoPref ELSE req[r].had0
      has  == HasPref(userLang, s, seen)
      b    == Branch(variant, has, raw)
      slot == [Idle EXCEPT !.method = "POST",
                           !.from = s, !.msg = m, !.was = userLang[s], !.hadPref = has,
                           !.after = prev[s], !.branch = b,
                           !.had0 = seen, !.conc = req[r].conc, !.fresh = req[r].fresh]
      next == StoreAfter(userLang, s, b, raw)
  IN  /\ userLang' = next
      /\ \E d \in SendOutcomes(variant, b) :
           req' = [req EXCEPT ![r] =
             IF b = "content"
             THEN [slot EXCEPT !.pc = "short", !.lang = LangOf(userLang, s)]
             ELSE IF variant = "part_000" /\ b \in {"reset", "select"}
             THEN [slot EXCEPT !.pc = "write", !.text = ReplyText(variant, b, raw),
                               !.pending = [set |-> TRUE, data |-> next]]
             ELSE IF variant = "pages_api" /\ b = "list" /\ ~d
             THEN Crash(Outbound(slot))
             ELSE Respond(IF SendOutcomes(variant, b) = BOOLEAN THEN Outbound(slot) ELSE slot,
                          200, ReplyText(variant, b, raw), <<>>, d)]

\* a POST reaches a handler that keeps the store in memory, which awaits the
\* body: await parseBody(req)
Arrive(r, s, m) ==
  /\ variant # "part_000"
  /\ req[r].pc = "idle"
  /\ req' = [req EXCEPT ![r] =
       [Idle EXCEPT !.pc = "parse", !.method = "POST", !.from = s, !.msg = m,
                    !.had0 = userLang[s] # NoPref,
                    !.conc = Busy(r), !.fresh = Fresh(r, s)]]
  /\ UNCHANGED <<variant, VERIFY_TOKEN, userLang, dbFile, prev>>

\* the body has been read: the handler routes the message
Route(r) ==
  /\ variant # "part_000"
  /\ req[r].pc = "parse"
  /\ Dispatch(r, req[r].from, req[r].msg)
  /\ UNCHANGED <<variant, VERIFY_TOKEN, dbFile, prev>>

\* a POST handled with nothing else under way: arrival and routing in one step
Receive(r, s, m) ==
  /\ variant # "part_000"
  /\ req[r].pc = "idle"
  /\ Dispatch(r, s, m)
  /\ UNCHANGED <<variant, VERIFY_TOKEN, dbFile, prev>>

\* db.data after await db.read() and db.data ||= { userLang: {} }: what the
\* adapter holds; when it holds nothing, a Low built with default data keeps
\* db.data and a Low built without is left with null, hence the empty object
DbReloads ==
  IF ~dbFile.kept THEN {userLang}
  ELSE IF dbFile.exists THEN {dbFile.data}
  ELSE IF dbFile.defaults THEN {userLang}
  ELSE {EmptyStore}

\* whether the adapter's read or write can throw: a file can, the Memory
\* adapter holds a reference
IoOutcomes == IF dbFile.kept THEN BOOLEAN ELSE {TRUE}

\* a POST reaches the durable handler: await db.read() reloads db.data
DbRead(r, s, m) ==
  /\ variant = "part_000"
  /\ req[r].pc = "idle"
  /\ \E ok \in IoOutcomes, data \in DbReloads :
       IF ok
       THEN /\ userLang' = data
            /\ req' = [req EXCEPT ![r] =
                 [Idle EXCEPT !.pc = "route", !.method = "POST", !.from = s, !.msg = m,
                              !.had0 = data[s] # NoPref,
                              !.conc = Busy(r), !.fresh = Fresh(r, s)]]
       ELSE /\ userLang' = userLang
            /\ req' = [req EXCEPT ![r] =
                 Crash([Idle EXCEPT !.method = "POST", !.from = s, !.msg = m,
                                    !.after = prev[s]])]
  /\ UNCHANGED <<variant, VERIFY_TOKEN, dbFile, prev>>

\* the durable handler after parseBody
DbRoute(r) ==
  /\ variant = "part_000"
  /\ req[r].pc = "route"
  /\ Dispatch(r, req[r].from, req[r].msg)
  /\ UNCHANGED <<variant, VERIFY_TOKEN, dbFile, prev>>

\* await db.write(): the data is written to db.json, then the reply is sent
DbWrite(r) ==
  /\ req[r].pc = "write"
  /\ \E ok \in IoOutcomes :
       IF ok
       THEN /\ dbFile' = [dbFile EXCEPT
                            !.exists = TRUE,
                            !.data = req[r].pending.data,
                            !.told[req[r].from] = req[r].pending.data[req[r].from]]
            /\ req' = [req EXCEPT ![r] =
                 Respond(req[r], 200, req[r].text, <<>>, TRUE)]
       ELSE /\ dbFile' = dbFile
            /\ req' = [req EXCEPT ![r] = Crash([req[r] EXCEPT !.text = <<>>])]
  /\ UNCHANGED <<variant, VERIFY_TOKEN, userLang, prev>>

-----------------------------------------------------------------------------
(* The probe *)

\* a GET request without verification parameters; the durable handler awaits
\* db.read() before it looks at the method
Probe(r) ==
  /\ req[r].pc = "idle"
  /\ IF variant = "part_000"
     THEN \E ok \in IoOutcomes, data \in DbReloads :
            IF ok
            THEN /\ userLang' = data
                 /\ req' = [req EXCEPT ![r] =
                      [Idle EXCEPT !.pc = "acked", !.method = "GET", !.status = 200,
                                   !.nRes = 1, !.text = ackText, !.sent = TRUE]]
            ELSE /\ userLang' = userLang
                 /\ req' = [req EXCEPT ![r] =
                      [Idle EXCEPT !.pc = "acked", !.method = "GET", !.crashed = TRUE]]
     ELSE /\ userLang' = userLang
          /\ req' = [req EXCEPT ![r] =
               [Idle EXCEPT !.pc = "acked", !.method = "GET", !.status = 200,
                            !.nRes = 1, !.text = ackText, !.sent = TRUE]]
  /\ UNCHANGED <<variant, VERIFY_TOKEN, dbFile, prev>>

\* the body of the response to a POST without a message
noMessageText == << <<"no message">> >>

\* mode === 'subscribe' && token === VERIFY_TOKEN
Verified(mode, token) == mode = "subscribe" /\ token = VERIFY_TOKEN

\* the Cloud API handler receives a GET that carries hub.mode: the webhook
\* verification
Verify(r, mode, token, challenge) ==
  /\ variant = "cloud"
  /\ req[r].pc = "idle"
  /\ req' = [req EXCEPT ![r] =
       [Idle EXCEPT !.pc = "acked", !.method = "GET",
                    !.query = <<mode, token, challenge>>,
                    !.status = IF Verified(mode, token) THEN 200 ELSE 403,
                    !.nRes = 1,
                    !.text = IF Verified(mode, token) THEN << <<challenge>> >> ELSE <<>>]]
  /\ UNCHANGED <<variant, VERIFY_TOKEN, userLang, dbFile, prev>>

\* the Cloud API handler receives a POST whose payload holds no message:
\* req.body.entry?.[0] throws where req.body is null, and msg is undefined
\* for the other payloads
NoMessage(r, body) ==
  /\ variant = "cloud"
  /\ req[r].pc = "idle"
  /\ req' = [req EXCEPT ![r] =
       IF body = "null"
       THEN [Idle EXCEPT !.pc = "acked", !.method = "POST", !.payload = body,
                         !.crashed = TRUE]
       ELSE [Idle EXCEPT !.pc = "acked", !.method = "POST", !.payload = body,
                         !.status = 200, !.nRes = 1, !.text = noMessageText]]
  /\ UNCHANGED <<variant, VERIFY_TOKEN, userLang, dbFile, prev>>

\* the Cloud API handler receives a request that is neither GET nor POST
BadMethod(r, method) ==
  /\ variant = "cloud"
  /\ req[r].pc = "idle"
  /\ req' = [req EXCEPT ![r] =
       [Idle EXCEPT !.pc = "acked", !.method = method, !.status = 405, !.nRes = 1]]
  /\ UNCHANGED <<variant, VERIFY_TOKEN, userLang, dbFile, prev>>

\* the handler of the GET request has returned
ProbeReturn(r) ==
  /\ req[r].pc = "acked"
  /\ req' = [req EXCEPT ![r] = Idle]
  /\ UNCHANGED <<variant, VERIFY_TOKEN, userLang, dbFile, prev>>

-----------------------------------------------------------------------------
(* The content pipeline *)

\* the reply of a content turn, with the audio when url is set
Compose(v, slot, url, delivered) ==
  IF v \in RestVariants
  THEN [slot EXCEPT !.pc = "send", !.url = url]
  ELSE Respond(IF v = "cloud" THEN Outbound(slot) ELSE slot,
               200, contentText(v, slot.lang, url), contentMedia(v, url), delivered)

\* the optional branch has failed and its error reaches the outer catch
TextOnly_rethrown(v, slot, delivered) == Respond(slot, 500, apologyText, <<>>, delivered)

\* the optional branch has failed: the error is logged, mediaUrl stays null
\* and the reply is the short text alone
TextOnly(v, slot, delivered) == Compose(v, slot, FALSE, delivered)

ReplyOutcomes(v) == IF v = "cloud" THEN BOOLEAN ELSE {TRUE}

\* the short-form call placed inside the inner try: its failure is logged
\* and the handler goes on to the long-form call
ShortGen_proceeds(r) ==
  /\ req[r].pc = "short"
  /\ \E ok \in BOOLEAN :
       req' = [req EXCEPT ![r] =
         [req[r] EXCEPT !.nShort = @ + 1, !.shortOk = ok, !.pc = "long",
                        !.asked = @ \cup {req[r].lang}]]
  /\ UNCHANGED <<variant, VERIFY_TOKEN, userLang, dbFile, prev>>

\* await getGroqResponse(incomingText, lang)
ShortGen(r) ==
  /\ req[r].pc = "short"
  /\ \E ok \in BOOLEAN :
       LET slot == [req[r] EXCEPT !.nShort = @ + 1, !.shortOk = ok,
                                  !.asked = @ \cup {req[r].lang}]
       IN  req' = [req EXCEPT ![r] =
             IF ok THEN [slot EXCEPT !.pc = IF variant \in RestVariants THEN "tts" ELSE "long"]
             ELSE IF variant = "cloud" THEN Crash(slot)
             ELSE IF variant = "rest" THEN Respond(slot, 500, <<>>, <<>>, FALSE)
             ELSE IF variant = "rest_fallback" THEN [slot EXCEPT !.pc = "fallback"]
             ELSE Respond(slot, 500, apologyText, <<>>, TRUE)]
  /\ UNCHANGED <<variant, VERIFY_TOKEN, userLang, dbFile, prev>>

\* generateAudioAndUpload is under way in slot q
Generating(q) == req[q].pc \in {"tts", "upload"}

\* slot q has computed its file name and none of its awaits has returned
JustStarted(q) == Generating(q) /\ req[q].nTts = 0 /\ req[q].nUpload = 0

\* a value of Date.now() that no other invocation has in its file name
FreshStamp(r) == CHOOSE t \in Stamps : \A q \in Reqs \ {r} : req[q].stamp # t

\* const filename = `audio_${Date.now()}.mp3`: the millisecond is a new
\* one, or the one in which another invocation has just computed its name
StampsAt(r) ==
  {FreshStamp(r)} \cup {req[q].stamp : q \in {x \in Reqs \ {r} : JustStarted(x)}}

\* path.join(tmpDir, filename) is the same path in both slots
SamePath(r, q) == req[r].stamp # "none" /\ req[r].stamp = req[q].stamp

\* slot r becomes slot; what it did to the file at its path is what the
\* other invocations with that path find there
Shared(r, slot) ==
  [q \in Reqs |->
     IF q = r THEN slot
     ELSE IF SamePath(r, q) /\ Generating(q)
     THEN [req[q] EXCEPT !.file = slot.file, !.fileBy = slot.fileBy]
     ELSE req[q]]

\* the long-form call followed by a speech request whatever the language,
\* the test language !== 'en' dropped
LongGen_synthesizes(r) ==
  /\ req[r].pc = "long"
  /\ \E ok \in BOOLEAN, d \in ReplyOutcomes(variant), ts \in StampsAt(r) :
       LET slot == [req[r] EXCEPT !.nLong = @ + 1, !.longOk = ok,
                                  !.asked = @ \cup {req[r].lang}]
       IN  req' = [req EXCEPT ![r] =
             IF ~ok THEN TextOnly(variant, slot, d)
             ELSE [slot EXCEPT !.pc = "tts", !.stamp = ts]]
  /\ UNCHANGED <<variant, VERIFY_TOKEN, userLang, dbFile, prev>>

\* await getGroqLongResponse(incomingText, lang), then the start of
\* generateAudioAndUpload(longText, lang)
LongGen(r) ==
  /\ req[r].pc = "long"
  /\ \E ok \in BOOLEAN, d \in ReplyOutcomes(variant), ts \in StampsAt(r) :
       LET slot == [req[r] EXCEPT !.nLong = @ + 1, !.longOk = ok,
                                  !.asked = @ \cup {req[r].lang}]
       IN  req' = [req EXCEPT ![r] =
             IF ~ok THEN TextOnly(variant, slot, d)
             ELSE IF slot.lang # "en" THEN [slot EXCEPT !.pc = "tts", !.stamp = ts]
             ELSE IF variant = "part_001" THEN TextOnly(variant, slot, d)
             ELSE [slot EXCEPT !.pc = "upload", !.stamp = ts]]
  /\ UNCHANGED <<variant, VERIFY_TOKEN, userLang, dbFile, prev>>

\* what one call of the speech service can end in
TtsOutcomes(v) ==
  CASE v = "part_001" -> {"ok", "fail", "empty"}
    [] v = "part_000" -> {"ok", "fail", "404"}
    [] OTHER          -> {"ok", "fail"}

\* for (let i = 0; i < 2; i++): whether a failed attempt is followed by another
TtsRetries(v, done, out) ==
  v \in {"part_001", "part_000"} /\ out # "404" /\ done + 1 < 2

\* one attempt of the speech synthesis
Tts(r) ==
  /\ req[r].pc = "tts"
  /\ \E out \in TtsOutcomes(variant), d \in ReplyOutcomes(variant) :
       LET slot == [req[r] EXCEPT
                      !.nTts = @ + 1,
                      !.asked = @ \cup {req[r].lang},
                      !.ttsOk = (out = "ok"),
                      !.ttsOut = out,
                      !.file = IF out = "ok" THEN "data"
                               ELSE IF out = "empty" THEN "empty" ELSE @,
                      !.fileBy = IF out \in {"ok", "empty"} THEN r ELSE @]
       IN  req' = Shared(r,
             IF out = "ok"
             THEN (IF variant = "rest" THEN Compose(variant, slot, TRUE, d)
                   ELSE [slot EXCEPT !.pc = "upload"])
             ELSE IF TtsRetries(variant, req[r].nTts, out) THEN slot
             ELSE TextOnly(variant, slot, d))
  /\ UNCHANGED <<variant, VERIFY_TOKEN, userLang, dbFile, prev>>

\* whether the handler's catch removes the temporary file when the upload fails
UnlinksOnFailure(v) == v \in {"part_001", "index", "cloud"}

\* await cloudinary.uploader.upload(filePath, ...), then the reply
Upload(r) ==
  /\ req[r].pc = "upload"
  /\ \E ok \in (IF req[r].file = "data" THEN BOOLEAN ELSE {FALSE}),
        d \in ReplyOutcomes(variant) :
       LET unlinks == ok \/ UnlinksOnFailure(variant)
           slot == [req[r] EXCEPT
                      !.nUpload = @ + 1,
                      !.uploadOk = ok,
                      !.audioBy = IF ok THEN req[r].fileBy ELSE @,
                      !.file = IF unlinks THEN "none" ELSE @,
                      !.fileBy = IF unlinks THEN "none" ELSE @]
       IN  req' = Shared(r,
             IF ok THEN Compose(variant, slot, TRUE, d)
             ELSE TextOnly(variant, slot, d))
  /\ UNCHANGED <<variant, VERIFY_TOKEN, userLang, dbFile, prev>>

\* await client.messages.create({ to: from, body: text, mediaUrl })
RestSend(r) ==
  /\ req[r].pc = "send"
  /\ \E ok \in BOOLEAN :
       req' = [req EXCEPT ![r] =
         IF ok
         THEN Respond(Outbound(req[r]), 200,
                      contentText(variant, req[r].lang, req[r].url),
                      contentMedia(variant, req[r].url), TRUE)
         ELSE IF variant = "rest" THEN Respond(Outbound(req[r]), 500, <<>>, <<>>, FALSE)
         ELSE [Outbound(req[r]) EXCEPT !.pc = "fallback"]]
  /\ UNCHANGED <<variant, VERIFY_TOKEN, userLang, dbFile, prev>>

\* the catch of the last handler of part_002: the apology is sent by REST,
\* outside any try
FallbackSend(r) ==
  /\ req[r].pc = "fallback"
  /\ \E ok \in BOOLEAN :
       req' = [req EXCEPT ![r] =
         IF ok THEN Respond(Outbound(req[r]), 200, apologyText, <<>>, TRUE)
         ELSE Crash(Outbound(req[r]))]
  /\ UNCHANGED <<variant, VERIFY_TOKEN, userLang, dbFile, prev>>

-----------------------------------------------------------------------------
(* The end of a turn *)

\* the reset vocabulary of the bot
ResetWords == {W_change, W_reset, W_resetLang}

\* what the turn was, for the sender's next turn
TurnClass(slot) ==
  IF incomingTextRaw(slot.msg) \in ResetWords
  THEN (IF slot.hadPref THEN "resetS1" ELSE "resetS0")
  ELSE IF slot.branch \in {"select", "setcode"} THEN "select"
  ELSE "other"

\* the handler has returned
Finish(r) ==
  /\ req[r].pc = "done"
  /\ prev' = [prev EXCEPT ![req[r].from] = TurnClass(req[r])]
  /\ req' = [req EXCEPT ![r] = Idle]
  /\ UNCHANGED <<variant, VERIFY_TOKEN, userLang, dbFile>>

-----------------------------------------------------------------------------

Init ==
  /\ variant \in Variants
  /\ VERIFY_TOKEN \in Environment(variant)
  /\ userLang = EmptyStore
  /\ dbFile \in Adapters(variant)
  /\ req = [r \in Reqs |-> Idle]
  /\ prev = [s \in Identities |-> "none"]

\* one request at a time
Next ==
  \E r \in SeqReqs :
    \/ \E s \in Senders : \E m \in MessagesOf(s) : Receive(r, s, m)
    \/ \E s \in Senders : \E m \in MessagesOf(s) : DbRead(r, s, m)
    \/ DbRoute(r)
    \/ DbWrite(r)
    \/ ShortGen(r)
    \/ LongGen(r)
    \/ Tts(r)
    \/ Upload(r)
    \/ RestSend(r)
    \/ FallbackSend(r)
    \/ Finish(r)
    \/ Probe(r)
    \/ \E mode \in Modes, token \in Tokens \cup {Absent}, challenge \in Challenges :
         Verify(r, mode, token, challenge)
    \/ \E body \in Payloads : NoMessage(r, body)
    \/ \E method \in OtherMethods : BadMethod(r, method)
    \/ ProbeReturn(r)

Spec == Init /\ [][Next]_vars

-----------------------------------------------------------------------------
(* Two messages of one sender, one invocation each *)

ConcMessages == {IntToStr(1), IntToStr(2)}

ConcInit == Init /\ variant \in {"part_001", "part_000"}

ConcNext ==
  \E r \in Reqs :
    \/ \E m \in ConcMessages : Arrive(r, "U1", m)
    \/ Route(r)
    \/ \E m \in ConcMessages : DbRead(r, "U1", m)
    \/ DbRoute(r)
    \/ DbWrite(r)
    \/ ShortGen(r)
    \/ LongGen(r)
    \/ Tts(r)
    \/ Upload(r)

ConcSpec == ConcInit /\ [][ConcNext]_vars

-----------------------------------------------------------------------------
(* Two senders at a time on the durable handler *)

\* the sender whose requests slot r carries
SenderOf(r) == IF r = "r1" THEN "U1" ELSE "U2"

CrossMessages == {IntToStr(2), <<"H","i">>}

CrossInit == Init /\ variant = "part_000"

CrossNext ==
  \E r \in Reqs :
    \/ \E m \in CrossMessages : DbRead(r, SenderOf(r), m)
    \/ DbRoute(r)
    \/ DbWrite(r)
    \/ ShortGen(r)
    \/ LongGen(r)
    \/ Tts(r)
    \/ Upload(r)
    \/ Finish(r)

CrossSpec == CrossInit /\ [][CrossNext]_vars

-----------------------------------------------------------------------------
(* A sender with a preference sends two messages at a time, part_001 *)

OverlapMessages == {<<"H","i">>, W_reset, M_Change}

\* the store after the sender's selection of Hindi has been handled
OverlapInit ==
  /\ variant = "part_001"
  /\ VERIFY_TOKEN \in Environment(variant)
  /\ userLang = [EmptyStore EXCEPT !["U1"] = "hi"]
  /\ dbFile \in Adapters(variant)
  /\ req = [r \in Reqs |-> Idle]
  /\ prev = [s \in Identities |-> IF s = "U1" THEN "select" ELSE "none"]

OverlapNext ==
  \E r \in Reqs :
    \/ \E m \in OverlapMessages : Arrive(r, "U1", m)
    \/ Route(r)
    \/ ShortGen(r)
    \/ LongGen(r)
    \/ Tts(r)
    \/ Upload(r)

OverlapSpec == OverlapInit /\ [][OverlapNext]_vars

-----------------------------------------------------------------------------
(* Two senders with a preference ask for content at a time, part_001 and
   index.js: the temporary files of generateAudioAndUpload *)

FileMessages == {<<"H","i">>, <<"T","e","l","l"," ","m","e">>}

\* the store after the two senders have selected Hindi and Tamil
FileInit ==
  /\ variant \in {"part_001", "index"}
  /\ VERIFY_TOKEN \in Environment(variant)
  /\ userLang = [EmptyStore EXCEPT !["U1"] = "hi", !["U2"] = "ta"]
  /\ dbFile \in Adapters(variant)
  /\ req = [r \in Reqs |-> Idle]
  /\ prev = [s \in Identities |-> IF s \in Senders THEN "select" ELSE "none"]

FileNext ==
  \E r \in Reqs :
    \/ \E m \in FileMessages : Arrive(r, SenderOf(r), m)
    \/ Route(r)
    \/ ShortGen(r)
    \/ LongGen(r)
    \/ Tts(r)
    \/ Upload(r)

FileSpec == FileInit /\ [][FileNext]_vars

-----------------------------------------------------------------------------
(* The Cloud API handler and every kind of request it is sent *)

HookInit == Init /\ variant = "cloud"

HookNext ==
  \E r \in SeqReqs :
    \/ \E s \in Senders : \E m \in FewMessages : Receive(r, s, m)
    \/ ShortGen(r)
    \/ LongGen(r)
    \/ Tts(r)
    \/ Upload(r)
    \/ Finish(r)
    \/ Probe(r)
    \/ \E mode \in Modes, token \in Tokens \cup {Absent}, challenge \in Challenges :
         Verify(r, mode, token, challenge)
    \/ \E body \in Payloads : NoMessage(r, body)
    \/ \E method \in OtherMethods : BadMethod(r, method)
    \/ ProbeReturn(r)

HookSpec == HookInit /\ [][HookNext]_vars

-----------------------------------------------------------------------------
(* Senders of every identity, where the store is a Map or a plain object *)

IdSenders == {"U1", MissingFrom, ProtoFrom}

IdMessages ==
  { <<"H","i">>, <<"3"," ","s","t","o","r","i","e","s">>, IntToStr(2), W_change }

IdInit == Init /\ variant \in {"part_001", "index", "part_000"}

IdNext ==
  \E r \in SeqReqs :
    \/ \E s \in IdSenders : \E m \in IdMessages : Receive(r, s, m)
    \/ \E s \in IdSenders : \E m \in IdMessages : DbRead(r, s, m)
    \/ DbRoute(r)
    \/ DbWrite(r)
    \/ ShortGen(r)
    \/ LongGen(r)
    \/ Tts(r)
    \/ Upload(r)
    \/ Finish(r)

IdSpec == IdInit /\ [][IdNext]_vars

-----------------------------------------------------------------------------
(* The process restarts *)

\* the modules are loaded anew: a new Map, or a new Low on a new adapter
\* followed by await db.read() and db.data ||= defaultData; the requests that
\* were under way are gone with the process
Restart ==
  /\ req' = [r \in Reqs |-> Idle]
  /\ userLang' = IF variant = "part_000" /\ dbFile.kept /\ dbFile.exists
                 THEN dbFile.data ELSE EmptyStore
  /\ dbFile' = IF dbFile.kept THEN dbFile ELSE NoFile(FALSE, TRUE)
  /\ UNCHANGED <<variant, VERIFY_TOKEN, prev>>

RestartInit ==
  /\ variant \in {"part_000", "index"}
  /\ VERIFY_TOKEN \in Environment(variant)
  /\ userLang = EmptyStore
  /\ dbFile \in Adapters(variant) \cup
                 (IF variant = "part_000" THEN {NoFile(FALSE, TRUE)} ELSE {})
  /\ req = [r \in Reqs |-> Idle]
  /\ prev = [s \in Identities |-> "none"]

RestartNext ==
  \/ \E r \in SeqReqs :
       \/ \E s \in Senders : \E m \in FewMessages : Receive(r, s, m)
       \/ \E s \in Senders : \E m \in FewMessages : DbRead(r, s, m)
       \/ DbRoute(r)
       \/ DbWrite(r)
       \/ ShortGen(r)
       \/ LongGen(r)
       \/ Tts(r)
       \/ Upload(r)
       \/ Finish(r)
  \/ Restart

RestartSpec == RestartInit /\ [][RestartNext]_vars

-----------------------------------------------------------------------------
(* Progress of a turn in part_001 *)

LiveInit == Init /\ variant = "part_001"

LiveNext ==
  \E r \in SeqReqs :
    \/ \E s \in Senders : \E m \in FewMessages : Receive(r, s, m)
    \/ ShortGen(r)
    \/ LongGen(r)
    \/ Tts(r)
    \/ Upload(r)
    \/ Finish(r)

\* the two generation calls race against a timer (25000 ms and 60000 ms), so
\* each of them ends; the handler returns once it has its reply; the speech
\* request and the upload are awaited with no timer
LiveSpec ==
  /\ LiveInit
  /\ [][LiveNext]_vars
  /\ \A r \in SeqReqs :
       WF_vars(ShortGen(r)) /\ WF_vars(LongGen(r)) /\ WF_vars(Finish(r))

-----------------------------------------------------------------------------
(* Vocabulary of the properties *)

\* the help vocabulary of the bot
HelpWords == {W_help, W_menu}

\* help and reset triggers as users type them
HelpMessages  == {W_help, W_menu, M_Help, M_Menu}
ResetMessages == {W_reset, W_change, W_resetLang, M_Reset, M_Change, M_ResetLang}

\* the number of supported languages
N == 15

\* an optional sign followed by digits and nothing else
IsIntegerString(t) ==
  LET body == IF t # <<>> /\ Head(t) \in {"-", "+"} THEN Tail(t) ELSE t
  IN  body # <<>> /\ \A i \in 1..Len(body) : IsDigit(body[i])

\* the integer such a string denotes
IntegerOf(t) ==
  IF Head(t) = "-" THEN 0 - DigitsValue(Tail(t))
  ELSE IF Head(t) = "+" THEN DigitsValue(Tail(t))
  ELSE DigitsValue(t)

\* a message that is neither a help nor a reset trigger
IsFreeForm(m) == incomingTextRaw(m) \notin (HelpWords \cup ResetWords)

\* a free-form message that is not blank and has no digit in it
IsPlainText(m) == trim(m) # <<>> /\ IsFreeForm(m) /\ \A i \in 1..Len(m) : ~IsDigit(m[i])

\* calls to the generation, speech and upload services made in the turn
Calls(t) == t.nShort + t.nLong + t.nTts + t.nUpload

\* the turn's reply carries the short text
HasShort(t) == t.text # <<>> /\ t.text[1][1] = ShortText

\* the turn's reply carries an audio URL, as a link or as media
HasAudio(t) ==
  \/ \E i \in 1..Len(t.media) : t.media[i] = AudioUrl
  \/ \E i \in 1..Len(t.text) : \E j \in 1..Len(t.text[i]) : t.text[i][j] = AudioUrl

\* every step of the optional branch succeeded
OptionalOk(t) == t.longOk /\ t.ttsOk /\ t.uploadOk

\* the turn in slot r has ended
Done(r) == req[r].pc = "done"

-----------------------------------------------------------------------------
(* Properties *)

\* C1: in part_001 and the Cloud API handler a turn ends in exactly one of
\* four ways, decided on the trimmed lower-cased text in this order: a help
\* word gives the help text, a reset word clears the preference and confirms,
\* a sender without preference gets a selection or the menu, any other message
\* of a sender with a preference goes to content generation; a help or reset
\* word is never a selection and never reaches generation.
C1_RouterPrecedence ==
  \A r \in Reqs :
    LET t == req[r]
        raw == incomingTextRaw(t.msg)
    IN  (variant \in {"part_001", "cloud"} /\ Done(r) /\ ~t.crashed) =>
          IF raw \in HelpWords
          THEN t.text = helpText(variant) /\ Calls(t) = 0 /\ userLang[t.from] = t.was
          ELSE IF raw \in ResetWords
          THEN t.text = resetText(variant) /\ Calls(t) = 0 /\ userLang[t.from] = NoPref
          ELSE IF t.was = NoPref
          THEN /\ Calls(t) = 0
               /\ \/ t.text = menuText(variant) /\ userLang[t.from] = NoPref
                  \/ \E c \in Codes : t.text = selectedText(c) /\ userLang[t.from] = c
          ELSE t.nShort = 1 /\ userLang[t.from] = t.was

\* C2: in part_001 and index.js, a sender without preference who sends the
\* integer string k, 1 <= k <= N = 15, gets the k-th code of the declaration
\* order stored ("3" stores 'ta'), the reply "Language set to <name>", and
\* has a preference from then on; the same string from a sender with a
\* preference is forwarded to content generation and selects nothing.
C2_NumericSelection ==
  /\ Len(languageNames) = N
  /\ \A r \in Reqs : \A k \in 1..N :
       LET t == req[r]
       IN  (variant \in {"part_001", "index"} /\ Done(r) /\ t.msg = IntToStr(k)) =>
             IF t.was = NoPref
             THEN /\ userLang[t.from] = languageNames[k].code
                  /\ t.text = << <<"Language set to ", languageNames[k].name>> >>
                  /\ t.status = 200
                  /\ Calls(t) = 0
                  /\ (k = 3 => userLang[t.from] = "ta" /\ t.text[1][2] = "Tamil")
             ELSE /\ t.nShort = 1
                  /\ t.branch = "content"
                  /\ userLang[t.from] = t.was
                  /\ \A c \in Codes : t.text # selectedText(c)

\* a sender who chose Tamil with "3" sends "3" again and gets content
C2_Witness ==
  \E r \in Reqs :
    /\ variant \in {"part_001", "index"}
    /\ Done(r)
    /\ req[r].msg = <<"3">>
    /\ req[r].after = "select"
    /\ req[r].was = "ta"
    /\ req[r].nShort = 1

\* C3: in part_001, a sender without preference who sends non-numeric text
\* or an integer outside 1..N (0, 16, -1) has no entry after the turn, no
\* generation call is made, and the reply is the menu, the same text each
\* time.
C3_InvalidSelectionShowsMenu ==
  \A r \in Reqs :
    LET t == req[r]
        m == trim(t.msg)
    IN  ( /\ variant = "part_001"
          /\ Done(r)
          /\ t.was = NoPref
          /\ IsFreeForm(t.msg)
          /\ (~IsIntegerString(m) \/ IntegerOf(m) \notin 1..N) ) =>
          /\ userLang[t.from] = NoPref
          /\ Calls(t) = 0
          /\ t.text = menuText(variant)

\* C4: in part_001 and pages/api/whatsapp.js, a free-form message (not a help
\* or reset trigger; "hi" and digit strings included) of a sender with a
\* preference leaves the sender's stored code as it was, whether generation
\* succeeded or failed.
C4_FreeFormKeepsPreference ==
  \A r \in Reqs :
    LET t == req[r]
    IN  ( /\ variant \in {"part_001", "pages_api"}
          /\ Done(r)
          /\ t.was # NoPref
          /\ IsFreeForm(t.msg) ) =>
          userLang[t.from] = t.was

\* C5: in part_001, index.js and part_000, each of "reset", "change language"
\* and "reset language", in any case and with white space around, clears the
\* sender's preference and is answered with the confirmation, without any
\* generation call.
C5_ResetVocabulary ==
  \A r \in Reqs :
    LET t == req[r]
    IN  ( /\ variant \in {"part_001", "index", "part_000"}
          /\ Done(r)
          /\ ~t.crashed
          /\ t.msg \in ResetMessages ) =>
          /\ userLang[t.from] = NoPref
          /\ t.text = resetText(variant)
          /\ t.status = 200
          /\ Calls(t) = 0

\* C6: in part_001 and part_000 a reset is idempotent: a reset from a sender
\* without entry (never set, or just reset) is answered like any reset, with
\* the confirmation and a success status, and leaves the store as it was.
C6_ResetIdempotent ==
  \A r \in Reqs :
    LET t == req[r]
    IN  ( /\ variant \in {"part_001", "part_000"}
          /\ Done(r)
          /\ ~t.crashed
          /\ t.msg \in ResetMessages
          /\ t.was = NoPref ) =>
          /\ t.status = 200
          /\ t.text = resetText(variant)
          /\ userLang[t.from] = NoPref

\* C7: in part_001 and the Cloud API handler, "help" or "menu" (any case,
\* white space around) from a sender in any state is answered at once with
\* the static help text, which lists every language by number; the whole
\* store is left as it was and no generation call is made.
C7_HelpChangesNothing ==
  [][ \A r \in Reqs :
        ( /\ variant \in {"part_001", "cloud"}
          /\ req[r].pc = "idle"
          /\ req'[r].pc # "idle"
          /\ req'[r].msg \in HelpMessages ) =>
          /\ userLang' = userLang
          /\ req'[r].pc = "done"
          /\ ~req'[r].crashed
          /\ req'[r].status = 200
          /\ req'[r].text = helpText(variant)
          /\ Calls(req'[r]) = 0
          /\ \A k \in 1..N : \E i \in 1..Len(req'[r].text) :
               req'[r].text[i] = IntToStr(k) \o <<". ", languageNames[k].name>>
    ]_vars

\* " Help " from a sender with a preference is answered with the help text
C7_Witness ==
  \E r \in Reqs :
    /\ variant \in {"part_001", "cloud"}
    /\ Done(r)
    /\ req[r].msg = M_Help
    /\ req[r].was # NoPref
    /\ userLang[req[r].from] = req[r].was
    /\ req[r].text = helpText(variant)

\* C8: in part_001 and part_000, after a sender with a preference sends a
\* reset word, the sender's next free-form message is answered with the menu
\* and causes no generation, speech or upload call.
C8_ResetThenMenu ==
  \A r \in Reqs :
    LET t == req[r]
    IN  ( /\ variant \in {"part_001", "part_000"}
          /\ Done(r)
          /\ ~t.crashed
          /\ t.after = "resetS1"
          /\ IsPlainText(t.msg) ) =>
          /\ t.text = menuText(variant)
          /\ Calls(t) = 0

\* C9: in part_001 and index.js the reply of a content turn that ends with a
\* success status carries the short text, and carries an audio URL only if
\* long-form generation, speech synthesis and upload all succeeded.
C9_AudioOnlyWhenAllSucceeded ==
  \A r \in Reqs :
    LET t == req[r]
    IN  ( /\ variant \in {"part_001", "index"}
          /\ Done(r)
          /\ t.branch = "content"
          /\ t.status = 200 ) =>
          /\ HasShort(t)
          /\ (HasAudio(t) => OptionalOk(t))

\* a content turn whose reply carries the audio
C9_Witness ==
  \E r \in Reqs :
    /\ variant \in {"part_001", "index"}
    /\ Done(r)
    /\ req[r].branch = "content"
    /\ req[r].status = 200
    /\ HasShort(req[r])
    /\ HasAudio(req[r])
    /\ req[r].nUpload = 1

\* C10: in part_001 and index.js, when short-form generation succeeded and a
\* step of the optional branch (long-form generation, speech synthesis,
\* upload) failed, the turn still ends with a success status and the short
\* text alone: the failure does not reach the caller.
C10_OptionalFailureContained ==
  \A r \in Reqs :
    LET t == req[r]
    IN  ( /\ variant \in {"part_001", "index"}
          /\ Done(r)
          /\ t.branch = "content"
          /\ t.shortOk
          /\ ~OptionalOk(t) ) =>
          /\ ~t.crashed
          /\ t.status = 200
          /\ HasShort(t)
          /\ ~HasAudio(t)
          /\ t.text = contentText(variant, t.lang, FALSE)

\* the upload failed after the speech was synthesised; the reply is text only
C10_Witness ==
  \E r \in Reqs :
    /\ variant \in {"part_001", "index"}
    /\ Done(r)
    /\ req[r].shortOk /\ req[r].longOk /\ req[r].ttsOk
    /\ req[r].nUpload = 1 /\ ~req[r].uploadOk
    /\ req[r].status = 200
    /\ ~HasAudio(req[r])

C11_ShortFailureFailsTurn ==
  \A r \in Reqs :
    LET t == req[r]
    IN  ( /\ variant \in {"index", "cloud", "rest_fallback"}
          /\ Done(r)
          /\ t.nShort >= 1
          /\ ~t.shortOk ) =>
          /\ t.nShort = 1
          /\ t.nLong = 0 /\ t.nTts = 0 /\ t.nUpload = 0
          /\ ~t.crashed
          /\ t.text = apologyText
          /\ t.sent
          /\ t.media = <<>>
          /\ (variant = "index" => t.status >= 400)

\* the kinds of reply a user may receive
IsAnswer(t)       == HasShort(t)
IsMenuOrHelp(t)   == t.text \in {menuText(variant), helpText(variant), listText}
IsConfirmation(t) == t.text = resetText(variant) \/ \E c \in Codes : t.text = selectedText(c)
IsApology(t)      == t.text = apologyText

\* C12: in part_000, the Cloud API handler and the REST handler of index.js,
\* whatever fails while a message is handled (generation, speech, upload,
\* outbound send, read or write of the durable store), the reply is an
\* answer, a menu or help text, a confirmation or the apology; the handler
\* never ends in an unhandled exception or with an empty error response.
C12_FourKindsOfReply ==
  \A r \in Reqs :
    LET t == req[r]
    IN  (variant \in {"part_000", "cloud", "rest"} /\ Done(r)) =>
          /\ ~t.crashed
          /\ t.text # <<>>
          /\ IsAnswer(t) \/ IsMenuOrHelp(t) \/ IsConfirmation(t) \/ IsApology(t)

C15_RecordLifecycle ==
  \A r \in Reqs :
    LET t == req[r]
        m == trim(t.msg)
    IN  (variant \in {"part_001", "pages_api"} /\ Done(r) /\ ~t.crashed) =>
          /\ (IsIntegerString(m) /\ IntegerOf(m) \in 1..N) =>
               userLang[t.from] = languageNames[IntegerOf(m)].code
          /\ incomingTextRaw(t.msg) \in ResetWords =>
               userLang[t.from] = NoPref

\* C16: in part_001 the menu and the selection agree on the order: the menu
\* has exactly N option lines, numbered 1..N in declaration order, and for
\* every i in 1..N the language named on the line "i. <display name>" is the
\* language whose code is stored when a sender without preference sends i.
C16_MenuMatchesSelection ==
  \A r \in Reqs :
    LET t == req[r]
    IN  (variant = "part_001" /\ Done(r)) =>
          /\ t.branch = "menu" =>
               /\ Len(t.text) = N + 1
               /\ \A i \in 1..N :
                    t.text[i + 1] = IntToStr(i) \o <<". ", languageNames[i].name>>
          /\ \A i \in 1..N :
               (t.was = NoPref /\ t.msg = IntToStr(i)) =>
                 /\ userLang[t.from] \in Codes
                 /\ menuText(variant)[i + 1] =
                      IntToStr(i) \o <<". ", NameOf(userLang[t.from])>>
                 /\ userLang[t.from] = languageNames[i].code

\* a sender without preference sends "15", the last line of the menu
C16_Witness ==
  \E r \in Reqs :
    /\ variant = "part_001"
    /\ Done(r)
    /\ req[r].was = NoPref
    /\ req[r].msg = IntToStr(N)
    /\ userLang[req[r].from] = "sa"
    /\ req[r].after = "other"

\* C17: in part_000 and part_001 a failed long-form generation, speech
\* synthesis or upload is never retried: each of the three calls is made at
\* most once in a turn, and after its failure the turn ends with the text-only
\* reply.
C17_OptionalCallsNotRetried ==
  \A r \in Reqs :
    LET t == req[r]
    IN  (variant \in {"part_000", "part_001"}) =>
          /\ t.nLong <= 1
          /\ t.nTts <= 1
          /\ t.nUpload <= 1
          /\ (Done(r) /\ t.shortOk /\ ~OptionalOk(t)) =>
               t.text = contentText(variant, t.lang, FALSE) /\ t.media = <<>>

\* C19: in part_001 and index.js the external calls of a turn happen in the
\* order short-form generation, long-form generation, speech synthesis,
\* upload, one at a time, each after the previous one has ended; after a
\* failed short-form generation no later call is started; and a failure of a
\* later call never discards the short text already obtained.
C19_CallOrder ==
  [][ \A r \in Reqs :
        LET a == req[r]
            b == req'[r]
        IN  variant \in {"part_001", "index"} =>
              /\ b.nShort > a.nShort =>
                   /\ Calls(a) = 0
                   /\ Calls(b) = 1
                   /\ (~b.shortOk => b.pc = "done")
              /\ b.nLong > a.nLong =>
                   /\ a.shortOk /\ a.nShort = 1
                   /\ a.nLong = 0 /\ a.nTts = 0 /\ a.nUpload = 0
                   /\ Calls(b) = Calls(a) + 1
              /\ b.nTts > a.nTts =>
                   /\ a.shortOk /\ a.longOk /\ a.nLong = 1
                   /\ a.nUpload = 0
                   /\ Calls(b) = Calls(a) + 1
              /\ b.nUpload > a.nUpload =>
                   /\ a.shortOk /\ a.longOk /\ a.nLong = 1
                   /\ (a.ttsOk \/ a.nTts = 0)
                   /\ a.nUpload = 0
                   /\ Calls(b) = Calls(a) + 1
              /\ ~(a.pc \notin {"idle", "done"} /\ a.nShort = 1 /\ ~a.shortOk)
              /\ (a.shortOk /\ a.pc # "done" /\ b.pc = "done") =>
                   /\ HasShort(b)
                   /\ b.status = 200
                   /\ ~b.crashed
    ]_vars

\* both speech attempts failed after the two texts were generated
C19_Witness ==
  \E r \in Reqs :
    /\ variant \in {"part_001", "index"}
    /\ Done(r)
    /\ req[r].shortOk /\ req[r].longOk /\ ~req[r].ttsOk
    /\ req[r].nShort = 1 /\ req[r].nLong = 1 /\ req[r].nTts >= 1 /\ req[r].nUpload = 0
    /\ HasShort(req[r])

\* C18: in part_001 every external call of a turn (short-form and long-form
\* generation, speech synthesis, upload) is bounded by a timeout of its own
\* and counts as failed when it expires, so a turn that has started always
\* ends with a reply, even if a collaborator never answers.
C18_TurnAlwaysEnds ==
  \A r \in SeqReqs :
    (req[r].pc \in {"short", "long", "tts", "upload"}) ~> (req[r].pc = "done")

\* the reply is a "Language set to ..." confirmation
IsSelectionReply(t) == \E c \in Codes : t.text = selectedText(c)

\* the code a valid selection names
CodeOf(m) == languageNames[IntegerOf(trim(m))].code

\* a and b are two turns of one sender who had no preference when a arrived
\* with nothing else under way, b arrived while a was under way, and the two
\* carry different valid selections
RacingSelections(a, b) ==
  /\ a.from = b.from /\ a.from \in Senders
  /\ a.fresh /\ ~a.conc /\ b.conc
  /\ a.msg \in ConcMessages /\ b.msg \in ConcMessages
  /\ a.msg # b.msg

\* C20: two messages of one sender without preference, carrying different
\* valid selections and handled concurrently, can both pass the absence check
\* and both set: when both get their "Language set to ..." confirmation, only
\* one of the two codes remains stored, in memory and in db.json. The race is
\* open in part_000, where a handler's db.read() drops a set whose write is
\* pending; in part_001, within one process, the absence check and the set run
\* with no await between them, so exactly one of the two selections is
\* confirmed and stored and the other message goes to content generation.
C20_LostUpdateOnlyDurable ==
  \A q1 \in Reqs : \A q2 \in Reqs :
    LET a == req[q1]
        b == req[q2]
    IN  ( /\ variant \in {"part_001", "part_000"}
          /\ RacingSelections(a, b)
          /\ Done(q1) /\ Done(q2)
          /\ ~a.crashed /\ ~b.crashed ) =>
          /\ (IsSelectionReply(a) /\ IsSelectionReply(b)) =>
               /\ variant = "part_000"
               /\ a.text = selectedText(CodeOf(a.msg))
               /\ b.text = selectedText(CodeOf(b.msg))
               /\ userLang[a.from] \in {CodeOf(a.msg), CodeOf(b.msg)}
               /\ dbFile.exists
               /\ dbFile.data[a.from] \in {CodeOf(a.msg), CodeOf(b.msg)}
          /\ variant = "part_001" =>
               \E w \in {q1, q2} : \E l \in {q1, q2} \ {w} :
                 /\ req[w].text = selectedText(CodeOf(req[w].msg))
                 /\ userLang[a.from] = CodeOf(req[w].msg)
                 /\ req[l].branch = "content"
                 /\ req[l].nShort = 1
                 /\ req[l].lang = CodeOf(req[w].msg)

\* part_000: both racing selections were confirmed, and one code is stored
C20_Witness ==
  \E q1 \in Reqs : \E q2 \in Reqs :
    /\ variant = "part_000"
    /\ RacingSelections(req[q1], req[q2])
    /\ Done(q1) /\ Done(q2)
    /\ req[q1].text = selectedText(CodeOf(req[q1].msg))
    /\ req[q2].text = selectedText(CodeOf(req[q2].msg))
    /\ req[q1].text # req[q2].text
    /\ dbFile.exists

\* the whole trimmed message is an integer of [1, N]
IsValidSelection(m) ==
  IsIntegerString(trim(m)) /\ IntegerOf(trim(m)) \in 1..N

\* C21: in part_000 and part_001 the state of a sender is the presence of
\* its entry in the store: whatever the sender identity, a missing one
\* included, a sender without entry is in S0, so that a message which is
\* neither a help or reset word nor a valid selection gets the menu and makes
\* no call to content generation.
C21_NoEntryMeansS0 ==
  \A r \in Reqs :
    LET t == req[r]
    IN  ( /\ variant \in {"part_000", "part_001"}
          /\ Done(r) /\ ~t.crashed
          /\ t.from \in Identities
          /\ t.was = NoPref
          /\ IsFreeForm(t.msg) /\ ~IsValidSelection(t.msg) ) =>
          /\ t.text = menuText(variant)
          /\ Calls(t) = 0
          /\ userLang[t.from] = NoPref

\* what the in-memory handler of index.js does with message m of sender s
\* when the mapping is store: the branch it takes and the mapping it leaves
InMemoryTurn(store, s, m) ==
  LET raw == incomingTextRaw(m)
      b   == Branch("index", store[s] # NoPref, raw)
  IN  [branch |-> b, store |-> StoreAfter(store, s, b, raw)]

\* C22: the durable handler (part_000) and the in-memory handler (index.js)
\* are interchangeable when messages are handled one at a time: the reload at
\* the start of a request leaves the mapping as the previous message left it,
\* the durable handler takes the branch the in-memory handler takes from the
\* same mapping and leaves the same mapping, and it answers every message.
C22_DurableMatchesInMemory ==
  [][ \A r \in SeqReqs :
        variant = "part_000" =>
          /\ (req[r].pc = "idle" /\ req'[r].pc = "route") => userLang' = userLang
          /\ (req[r].pc = "route" /\ req'[r].pc # "route") =>
               LET t == req'[r]
                   ref == InMemoryTurn(userLang, t.from, t.msg)
               IN  t.branch = ref.branch /\ userLang' = ref.store
          /\ (req[r].pc # "done" /\ req'[r].pc = "done") => ~req'[r].crashed
    ]_vars

\* the durable handler on a JSONFile adapter
IsDurable == variant = "part_000" /\ dbFile.kept

\* the reply confirms a selection or a reset
IsChangeConfirmation(t) == IsSelectionReply(t) \/ t.text = resetText(variant)

\* C23: with the durable store a selection or reset confirmation is sent only
\* once the change is in db.json, and a restart brings back exactly the
\* preferences that were confirmed (a confirmed selection present, a confirmed
\* reset absent); with a transient store (the Map, the Memory adapter) a
\* restart leaves every sender without preference.
C23_ConfirmedIsDurable ==
  [][ /\ \A r \in SeqReqs :
           ( /\ IsDurable
             /\ req[r].pc # "done" /\ req'[r].pc = "done"
             /\ IsChangeConfirmation(req'[r]) ) =>
             /\ dbFile'.exists
             /\ dbFile'.data[req'[r].from] = userLang'[req'[r].from]
             /\ IsSelectionReply(req'[r]) =>
                  req'[r].text = selectedText(dbFile'.data[req'[r].from])
             /\ req'[r].text = resetText(variant) =>
                  dbFile'.data[req'[r].from] = NoPref
      /\ Restart =>
           IF IsDurable THEN userLang' = dbFile.told
           ELSE userLang' = EmptyStore
    ]_vars

\* C24: in part_001 and index.js, for a sender with a stored preference the
\* short-form call, the long-form call and every speech request of a content
\* turn are given the language code that was stored when the turn began; 'en'
\* is given only when 'en' is the stored code.
C24_CallsUseStoredLanguage ==
  \A r \in Reqs :
    LET t == req[r]
    IN  ( /\ variant \in {"part_001", "index"}
          /\ t.pc # "idle"
          /\ t.branch = "content" ) =>
          /\ t.hadPref /\ t.was \in Codes
          /\ t.lang = t.was
          /\ t.asked \subseteq {t.was}
          /\ (Calls(t) > 0) => t.asked = {t.was}
          /\ (t.was # "en") => "en" \notin t.asked

\* a Tamil turn has made its three calls
C24_Witness ==
  \E r \in Reqs :
    /\ variant \in {"part_001", "index"}
    /\ Done(r)
    /\ req[r].was = "ta"
    /\ req[r].nShort = 1 /\ req[r].nLong = 1 /\ req[r].nTts >= 1
    /\ req[r].asked = {"ta"}

\* C25: in part_001 and the Cloud API handler a message of a sender without
\* preference selects a language only when the whole trimmed message is an
\* integer of [1, N]; a message that begins with such digits and goes on with
\* other characters ("3 stories", "2nd", "1.5") stores nothing and gets the
\* menu.
C25_SelectionNeedsWholeInteger ==
  \A r \in Reqs :
    LET t == req[r]
    IN  ( /\ variant \in {"part_001", "cloud"}
          /\ Done(r) /\ ~t.crashed
          /\ t.was = NoPref
          /\ IsFreeForm(t.msg) ) =>
          IF IsValidSelection(t.msg)
          THEN /\ t.text = selectedText(CodeOf(t.msg))
               /\ userLang[t.from] = CodeOf(t.msg)
          ELSE /\ t.text = menuText(variant)
               /\ userLang[t.from] = NoPref

\* the entry the next request of sender s finds: the Map's, or db.data's
\* after the reload that starts every request of the durable handler
Found(s) ==
  IF variant = "part_000" THEN (CHOOSE d \in DbReloads : TRUE)[s] ELSE userLang[s]

C27_ConfirmedSelectionStays ==
  \A s \in Senders :
    (variant = "part_000" /\ dbFile.told[s] # NoPref) =>
      /\ dbFile.exists
      /\ dbFile.data[s] = dbFile.told[s]

\* the turn waits on one of its external calls
InFlight(t) == t.pc \in {"short", "long", "tts", "upload"}

\* C28: in part_001 a content turn reads the sender's language once, when it
\* is routed, and never writes the store afterwards: when a reset word of the
\* same sender is handled while the turn is under way, the turn goes on in
\* the language it read and replies in it, and once the reset is handled the
\* sender has no preference, which the turn does not bring back.
C28_InFlightTurnKeepsLanguage ==
  [][ /\ \A r \in Reqs :
           (req[r].branch = "content" /\ InFlight(req[r]) /\ req'[r] # req[r]) =>
             /\ userLang' = userLang
             /\ req'[r].lang = req[r].lang
      /\ \A q1 \in Reqs : \A q2 \in Reqs \ {q1} :
           LET a == req'[q1]
               b == req'[q2]
           IN  ( /\ a.branch = "content" /\ a.was # NoPref
                 /\ b.from = a.from
                 /\ incomingTextRaw(b.msg) \in ResetWords
                 /\ b.pc = "done"
                 /\ (a.conc \/ b.conc) ) =>
                 /\ userLang'[a.from] = NoPref
                 /\ a.lang = a.was
                 /\ a.asked \subseteq {a.was}
                 /\ (a.pc = "done" /\ a.status = 200) =>
                      a.text = contentText(variant, a.was, FALSE)
    ]_vars

\* the reset has been answered while the Hindi turn waits on its long-form
\* call, and the preference is gone
C28_Witness ==
  \E q1 \in Reqs : \E q2 \in Reqs \ {q1} :
    /\ variant = "part_001"
    /\ req[q1].branch = "content" /\ req[q1].pc = "long" /\ req[q1].lang = "hi"
    /\ req[q2].from = req[q1].from
    /\ req[q2].msg = W_reset /\ Done(q2) /\ req[q2].conc
    /\ req[q2].text = resetText(variant)
    /\ userLang[req[q1].from] = NoPref

\* C29: in part_001 and part_000 speech synthesis is attempted at most twice
\* in a turn, a second time only after a failed first attempt; the upload is
\* attempted only after an attempt has succeeded; when both attempts fail the
\* reply is the short text alone, with success status and no exception; in
\* part_000 a 404 answer ends the attempts at once, with no upload and no
\* URL.
C29_SpeechRetryBounds ==
  \A r \in Reqs :
    LET t == req[r]
    IN  variant \in {"part_001", "part_000"} =>
          /\ t.nTts <= 2
          /\ (t.pc = "tts" /\ t.nTts >= 1) => (t.nTts = 1 /\ ~t.ttsOk)
          /\ (t.nTts = 2) => t.pc # "tts"
          /\ (t.pc = "upload" \/ t.nUpload > 0) => (t.nTts >= 1 /\ t.ttsOk)
          /\ (Done(r) /\ t.nTts = 2 /\ ~t.ttsOk) =>
               /\ ~t.crashed /\ t.status = 200
               /\ HasShort(t) /\ ~HasAudio(t)
               /\ t.nUpload = 0
          /\ (variant = "part_000" /\ t.ttsOut = "404") =>
               /\ Done(r) /\ ~t.crashed /\ t.status = 200
               /\ HasShort(t) /\ ~HasAudio(t)
               /\ t.nUpload = 0

C31_AudioIsOwn ==
  \A r \in Reqs :
    /\ HasAudio(req[r]) => req[r].audioBy = r
    /\ (req[r].pc = "upload" /\ req[r].ttsOk) =>
         (req[r].file = "data" /\ req[r].fileBy = r)

\* C32: in part_001, part_000 and pages/api/whatsapp.js no temporary audio
\* file of a turn is left in os.tmpdir() when the turn has replied, whether
\* the upload succeeded, the upload failed or the synthesis failed after the
\* file was written.
C32_TempFileDeleted ==
  \A r \in Reqs :
    (variant \in {"part_001", "part_000", "pages_api"} /\ Done(r)) =>
      req[r].file = "none"

\* C33: in part_001, the Cloud API handler and the last handler of part_002
\* an invocation that has ended has written exactly one HTTP response,
\* whatever the branch and whichever call failed.
C33_OneResponse ==
  \A r \in Reqs :
    (variant \in {"part_001", "cloud", "rest_fallback"} /\ Done(r)) =>
      (req[r].nRes = 1 /\ req[r].status # 0)

\* the GET in slot r has been answered with its challenge
GivenChallenge(t) == t.status = 200 /\ t.text = << <<t.query[3]>> >>

\* C34: in the Cloud API handler a GET that carries hub.mode is answered with
\* the challenge and status 200 only if hub.mode is 'subscribe' and
\* hub.verify_token equals the configured token, and with 403 otherwise; a
\* request without a token is never given the challenge; the verification
\* leaves the Preference Store as it was.
C34_VerificationNeedsToken ==
  [][ \A r \in Reqs :
        ( /\ variant = "cloud"
          /\ req[r].pc = "idle"
          /\ req'[r].pc = "acked"
          /\ req'[r].method = "GET"
          /\ req'[r].query # <<>> ) =>
          LET t == req'[r]
          IN  /\ GivenChallenge(t) =>
                   (t.query[1] = "subscribe" /\ t.query[2] = VERIFY_TOKEN)
              /\ ~GivenChallenge(t) => (t.status = 403 /\ t.text = <<>>)
              /\ t.query[2] = Absent => ~GivenChallenge(t)
              /\ userLang' = userLang
              /\ Calls(t) = 0 /\ t.nSend = 0
    ]_vars

\* C35: in the Cloud API handler a POST whose payload holds no message is
\* answered 200, and a request that is neither GET nor POST is answered 405;
\* neither changes the Preference Store, sends an outbound message or calls
\* an external service.
C35_NoMessageNoEffect ==
  [][ \A r \in Reqs :
        ( /\ variant = "cloud"
          /\ req[r].pc = "idle"
          /\ req'[r].pc = "acked"
          /\ \/ req'[r].method = "POST" /\ req'[r].payload # "none"
             \/ req'[r].method \notin {"GET", "POST"} ) =>
          LET t == req'[r]
          IN  /\ ~t.crashed /\ t.nRes = 1
              /\ t.status = IF t.method = "POST" THEN 200 ELSE 405
              /\ userLang' = userLang
              /\ t.nSend = 0
              /\ Calls(t) = 0
    ]_vars

====
